---- MODULE Spec2Model ----
(***************************************************************************)
(* Model of generate-mcqs: the generation script (src/main.py) that        *)
(* replaces the content of the question store mcqs.db, and the Flask quiz  *)
(* application (src/app.py) whose routes read the store and read and write *)
(* the cookie session of one user.                                         *)
(*                                                                         *)
(* The store is written by main() only; requests of the session are served *)
(* one at a time and, as the specification's concurrency section states,   *)
(* generation happens before the quiz session's first request.             *)
(* Question and option texts play no part in any decision of either        *)
(* program and are left out of the rows.                                   *)
(***************************************************************************)
EXTENDS Integers, Sequences, FiniteSets, TLC

VARIABLES
    db,        \* mcqs.db: the tables questions and options, and sqlite_sequence
    gen,       \* outcome of the last run of main(): how it ended, whether the model was invoked
    session,   \* the Flask session of the user: a dict, keys may be absent
    request,   \* the last HTTP request served
    response   \* what the last request returned

vars == <<db, gen, session, request, response>>

----------------------------------------------------------------------------
(* Bounds of the model *)

MaxQuestions == 2      \* questions in one response of the generative service
MaxFiles == 2          \* file paths on the command line

(* Program constants *)

OptionsPerQuestion == 4   \* Question.options: min_length = max_length = 4

None == -1                \* Python's None (identifiers are positive integers)

----------------------------------------------------------------------------
(* Python helpers *)

\* truth value of an int-or-None: None and 0 are falsy
Truthy(v) == v /= None /\ v /= 0

\* dict.get(key, default) on a dict modelled as a function
Get(d, k, default) == IF k \in DOMAIN d THEN d[k] ELSE default

\* d[k] = v
Put(d, k, v) == [x \in DOMAIN d \cup {k} |-> IF x = k THEN v ELSE d[x]]

EmptyDict == [x \in {} |-> None]

\* str(question_id), the key of the answers dict
Str(n) == <<"str", n>>

Range(s) == {s[i] : i \in 1..Len(s)}

\* the orders random.shuffle can leave a list in
Shuffles(s) ==
    {p \in [1..Len(s) -> Range(s)] : \A i, j \in 1..Len(s) : p[i] = p[j] => i = j}

RECURSIVE SeqsUpTo(_, _)
SeqsUpTo(S, n) ==
    IF n = 0 THEN {<<>>}
    ELSE LET shorter == SeqsUpTo(S, n - 1)
         IN  shorter \cup {Append(s, x) : s \in {t \in shorter : Len(t) = n - 1}, x \in S}

----------------------------------------------------------------------------
(* The question store (src/main.py) *)

\* after init_database on a new file, and after clear_database
EmptyDb == [questions |-> <<>>, options |-> <<>>, seq_questions |-> 0, seq_options |-> 0]

clear_database(d) == EmptyDb

RECURSIVE InsertOptions(_, _, _)
InsertOptions(d, question_id, opts) ==
    IF opts = <<>> THEN d
    ELSE InsertOptions(
            [d EXCEPT !.options = Append(@, [option_id |-> d.seq_options + 1,
                                             question_id |-> question_id,
                                             is_correct |-> IF Head(opts) THEN 1 ELSE 0]),
                      !.seq_options = @ + 1],
            question_id, Tail(opts))

RECURSIVE save_questions_to_db(_, _)
save_questions_to_db(d, qs) ==
    IF qs = <<>> THEN d
    ELSE LET question_id == d.seq_questions + 1
             d1 == [d EXCEPT !.questions = Append(@, [question_id |-> question_id]),
                             !.seq_questions = question_id]
         IN  save_questions_to_db(InsertOptions(d1, question_id, Head(qs)), Tail(qs))

----------------------------------------------------------------------------
(* The generation pipeline (src/main.py) *)

\* an Option list as the service may return it: the flags of its options
OptionLists ==
    {o \in SeqsUpTo(BOOLEAN, OptionsPerQuestion) :
        /\ Len(o) >= OptionsPerQuestion - 1
        /\ \A i \in 1..Len(o) : o[i] => i <= 2}

\* what response.text may hold: nothing, or a list of questions
NoText == [has_text |-> FALSE, questions |-> <<>>]
ServiceTexts ==
    {NoText} \cup {[has_text |-> TRUE, questions |-> qs] : qs \in SeqsUpTo(OptionLists, MaxQuestions)}

\* MCQResponse.model_validate_json: every question carries exactly 4 options,
\* each with a boolean flag; nothing relates the flags of one question
SchemaValid(text) ==
    \A i \in 1..Len(text.questions) : Len(text.questions[i]) = OptionsPerQuestion

\* AllFilesExist, had only the first path been looked at before the service is asked
AllFilesExistFirstOnly(file_paths) == file_paths = <<>> \/ file_paths[1]

\* prepare_file_content over the list, in order: the first missing file raises
AllFilesExist(file_paths) == \A i \in 1..Len(file_paths) : file_paths[i]

\* generate_mcqs_from_files: [status, api_called, questions]
generate_mcqs_from_files(file_paths, text) ==
    IF file_paths = <<>>
    THEN [status |-> "ValueError", api_called |-> FALSE, questions |-> <<>>]
    ELSE IF ~AllFilesExist(file_paths)
    THEN [status |-> "FileNotFoundError", api_called |-> FALSE, questions |-> <<>>]
    ELSE IF ~text.has_text
    THEN [status |-> "ValueError", api_called |-> TRUE, questions |-> <<>>]
    ELSE IF ~SchemaValid(text)
    THEN [status |-> "ValidationError", api_called |-> TRUE, questions |-> <<>>]
    ELSE [status |-> "ok", api_called |-> TRUE, questions |-> text.questions]

\* The position of main() is kept in gen:
\*   pc          "start" (not run yet), "init" (arguments parsed), "generate"
\*               (store cleared), "save" (response validated), "exit"
\*   file_paths  the paths of the run, each standing for whether the file exists
\*   status      how the last run ended: "ok", "usage" or the exception raised
\*   api_called  whether generate_content was called in the run
\*   questions   mcq_response.questions once validated
\*   before      the store as the run found it
Run(pc, file_paths, status, api_called, questions, before) ==
    [pc |-> pc, file_paths |-> file_paths, status |-> status,
     api_called |-> api_called, questions |-> questions, before |-> before]

\* main(), argument handling: without a file path the script prints its usage
\* or its error and exits with 1
main_args(file_paths) ==
    /\ gen.pc \in {"start", "exit"}
    /\ gen' = IF file_paths = <<>>
              THEN Run("exit", file_paths, "usage", FALSE, <<>>, db)
              ELSE Run("init", file_paths, "running", FALSE, <<>>, db)
    /\ UNCHANGED <<db, session, request, response>>

\* main(): conn = init_database(); clear_database(conn)
main_clear ==
    /\ gen.pc = "init"
    /\ db' = clear_database(db)
    /\ gen' = [gen EXCEPT !.pc = "generate"]
    /\ UNCHANGED <<session, request, response>>

\* main(): mcq_response = generate_mcqs_from_files(file_paths, num_questions),
\* the service answering text if it is asked; an exception ends the script
main_generate(text) ==
    /\ gen.pc = "generate"
    /\ LET r == generate_mcqs_from_files(gen.file_paths, text)
       IN  gen' = [gen EXCEPT !.pc = IF r.status = "ok" THEN "save" ELSE "exit",
                              !.status = IF r.status = "ok" THEN "running" ELSE r.status,
                              !.api_called = r.api_called,
                              !.questions = r.questions]
    /\ UNCHANGED <<db, session, request, response>>

\* main(): save_questions_to_db(conn, mcq_response); conn.close()
main_save ==
    /\ gen.pc = "save"
    /\ db' = save_questions_to_db(db, gen.questions)
    /\ gen' = [gen EXCEPT !.pc = "exit", !.status = "ok"]
    /\ UNCHANGED <<session, request, response>>

----------------------------------------------------------------------------
(* The quiz application (src/app.py) *)

\* get_all_questions(): every question with its options, by identifier
get_all_questions ==
    [i \in 1..Len(db.questions) |->
        [question_id |-> db.questions[i].question_id,
         options |-> SelectSeq(db.options,
                       LAMBDA o : o.question_id = db.questions[i].question_id)]]

AllIds == [i \in 1..Len(get_all_questions) |-> get_all_questions[i].question_id]

\* the questions of the run: question_ids filtered to the store, in the order of
\* question_ids; every question of the store when question_ids is empty or absent
RunQuestions(sess) ==
    LET question_ids == Get(sess, "question_ids", <<>>)
        all == get_all_questions
    IN  IF question_ids /= <<>>
        THEN LET present == SelectSeq(question_ids, LAMBDA qid : qid \in Range(AllIds))
             IN  [i \in 1..Len(present) |->
                    CHOOSE q \in Range(all) : q.question_id = present[i]]
        ELSE all

\* the first option flagged correct, None when there is none
FirstCorrect(q) ==
    IF \E i \in 1..Len(q.options) : q.options[i].is_correct /= 0
    THEN LET i == CHOOSE i \in 1..Len(q.options) :
                     /\ q.options[i].is_correct /= 0
                     /\ \A j \in 1..(i - 1) : q.options[j].is_correct = 0
         IN  q.options[i].option_id
    ELSE None

NoResponse ==
    [view |-> "none", question |-> None, show_answer |-> FALSE,
     selected_option |-> None, correct_option |-> None,
     results |-> <<>>, correct_count |-> 0, total |-> 0, has_wrong_answers |-> FALSE]

Redirect(to) == [NoResponse EXCEPT !.view = to]

Req(route, method, action, answer) ==
    [route |-> route, method |-> method, action |-> action, answer |-> answer]

\* index, had it reset the position and the answers only
IndexKeepsWrong ==
    /\ \E shuffled_ids \in Shuffles(AllIds) :
          session' = Put(Put(Put(session, "current_question", 0),
                                 "answers", EmptyDict),
                                 "question_ids", shuffled_ids)
    /\ request' = Req("index", "GET", "", None)
    /\ response' = Redirect("redirect:question")
    /\ UNCHANGED <<db, gen>>

\* GET /
index ==
    /\ \E shuffled_ids \in Shuffles(AllIds) :
          session' = [current_question |-> 0,
                      answers |-> EmptyDict,
                      wrong_questions |-> <<>>,
                      question_ids |-> shuffled_ids]
    /\ request' = Req("index", "GET", "", None)
    /\ response' = Redirect("redirect:question")
    /\ UNCHANGED <<db, gen>>

\* render_template("question.html", ...)
QuestionView(current_q, show_answer, selected_option, correct_option) ==
    [NoResponse EXCEPT !.view = "question.html",
                       !.question = current_q.question_id,
                       !.show_answer = show_answer,
                       !.selected_option = selected_option,
                       !.correct_option = correct_option]

\* Submit, had it tracked the wrong answer at submission time
SubmitTracksWrong(sess, current_q, selected) ==
    LET s1 == Put(sess, "selected_option", selected)
        s2 == Put(s1, "show_answer", TRUE)
        answers == Put(Get(sess, "answers", EmptyDict), Str(current_q.question_id), selected)
        s3 == Put(s2, "answers", answers)
    IN  IF selected /= FirstCorrect(current_q)
        THEN Put(s3, "wrong_questions",
                 Append(Get(sess, "wrong_questions", <<>>), current_q.question_id))
        ELSE s3

\* Submit, had it kept the first answer recorded for a question
SubmitFirstWins(sess, current_q, selected) ==
    LET s1 == Put(sess, "selected_option", selected)
        s2 == Put(s1, "show_answer", TRUE)
        old == Get(sess, "answers", EmptyDict)
        answers == IF Str(current_q.question_id) \in DOMAIN old THEN old
                   ELSE Put(old, Str(current_q.question_id), selected)
    IN  Put(s2, "answers", answers)

\* the session after POST action=submit with the form's answer field
Submit(sess, current_q, selected) ==
    LET s1 == Put(sess, "selected_option", selected)
        s2 == Put(s1, "show_answer", TRUE)
        answers == Put(Get(sess, "answers", EmptyDict), Str(current_q.question_id), selected)
    IN  Put(s2, "answers", answers)

\* Advance, had it left the reveal flag and the selection in place
AdvanceKeepsReveal(sess, current_q, current_idx, selected_option, correct_option) ==
    LET wrong_questions == Get(sess, "wrong_questions", <<>>)
        s0 == IF /\ Truthy(selected_option)
                 /\ selected_option /= correct_option
                 /\ current_q.question_id \notin Range(wrong_questions)
              THEN Put(sess, "wrong_questions", Append(wrong_questions, current_q.question_id))
              ELSE sess
    IN  Put(s0, "current_question", current_idx + 1)

\* Advance, had it appended to the list without storing it back in the session:
\* the append is lost when the session holds no wrong_questions yet
AdvanceNoStore(sess, current_q, current_idx, selected_option, correct_option) ==
    LET wrong_questions == Get(sess, "wrong_questions", <<>>)
        s0 == IF /\ Truthy(selected_option)
                 /\ selected_option /= correct_option
                 /\ current_q.question_id \notin Range(wrong_questions)
                 /\ "wrong_questions" \in DOMAIN sess
              THEN Put(sess, "wrong_questions", Append(wrong_questions, current_q.question_id))
              ELSE sess
        s1 == Put(s0, "current_question", current_idx + 1)
        s2 == Put(s1, "show_answer", FALSE)
    IN  Put(s2, "selected_option", None)

\* Advance, had it stepped over a question
AdvanceSkips(sess, current_q, current_idx, selected_option, correct_option) ==
    LET wrong_questions == Get(sess, "wrong_questions", <<>>)
        s0 == IF /\ Truthy(selected_option)
                 /\ selected_option /= correct_option
                 /\ current_q.question_id \notin Range(wrong_questions)
              THEN Put(sess, "wrong_questions", Append(wrong_questions, current_q.question_id))
              ELSE sess
        s1 == Put(s0, "current_question", current_idx + 2)
        s2 == Put(s1, "show_answer", FALSE)
    IN  Put(s2, "selected_option", None)

\* the session after POST action=next
Advance(sess, current_q, current_idx, selected_option, correct_option) ==
    LET wrong_questions == Get(sess, "wrong_questions", <<>>)
        s0 == IF /\ Truthy(selected_option)
                 /\ selected_option /= correct_option
                 /\ current_q.question_id \notin Range(wrong_questions)
              THEN Put(sess, "wrong_questions", Append(wrong_questions, current_q.question_id))
              ELSE sess
        s1 == Put(s0, "current_question", current_idx + 1)
        s2 == Put(s1, "show_answer", FALSE)
    IN  Put(s2, "selected_option", None)

\* NoQuestionsOutcome, had the emptiness checks been left to the position check
NoQuestionsFallsThrough(sess) ==
    [session |-> sess, response |-> Redirect("redirect:results")]

\* render_template("no_questions.html"): the store, or the run, holds no question
NoQuestionsOutcome(sess) ==
    [session |-> sess, response |-> Redirect("no_questions.html")]

\* CompletedOutcome, had it restarted the run
CompletedRestarts(sess) ==
    [session |-> Put(sess, "current_question", 0), response |-> Redirect("redirect:question")]

\* current_idx >= len(questions): redirect(url_for("results"))
CompletedOutcome(sess) ==
    [session |-> sess, response |-> Redirect("redirect:results")]

\* question(): the session and the response it leaves; answer is the form's
\* answer field (None: not sent)
QuestionOutcome(sess, method, action, answer) ==
    LET all == get_all_questions
        questions == RunQuestions(sess)
        current_idx == Get(sess, "current_question", 0)
    IN  IF all = <<>> \/ questions = <<>>
        THEN NoQuestionsOutcome(sess)
        ELSE IF current_idx >= Len(questions)
        THEN CompletedOutcome(sess)
        ELSE LET current_q == questions[current_idx + 1]
                 show_answer == Get(sess, "show_answer", FALSE)
                 selected_option == Get(sess, "selected_option", None)
                 correct_option == FirstCorrect(current_q)
             IN  IF method = "POST" /\ action = "submit" /\ answer /= None
                 THEN [session |-> Submit(sess, current_q, answer),
                       response |-> QuestionView(current_q, TRUE, answer, correct_option)]
                 ELSE IF method = "POST" /\ action = "next"
                 THEN [session |-> Advance(sess, current_q, current_idx,
                                           selected_option, correct_option),
                       response |-> Redirect("redirect:question")]
                 ELSE [session |-> sess,
                       response |-> QuestionView(current_q, show_answer,
                                                 selected_option, correct_option)]

\* GET or POST /question
question(method, action, answer) ==
    LET out == QuestionOutcome(session, method, action, answer)
    IN  /\ request' = Req("question", method, action, answer)
        /\ session' = out.session
        /\ response' = out.response
        /\ UNCHANGED <<db, gen>>

\* retry_wrong, had it kept the answers of the previous run
RetryKeepsAnswers ==
    LET wrong_questions == Get(session, "wrong_questions", <<>>)
    IN  /\ request' = Req("retry_wrong", "GET", "", None)
        /\ UNCHANGED <<db, gen>>
        /\ IF wrong_questions = <<>>
           THEN /\ session' = session
                /\ response' = Redirect("redirect:index")
           ELSE /\ session' = Put(Put(Put(session,
                                 "current_question", 0),
                                 "question_ids", wrong_questions),
                                 "wrong_questions", <<>>)
                /\ response' = Redirect("redirect:question")

\* retry_wrong, had it sent a session without wrong questions to the question route
RetryEmptyToQuestion ==
    LET wrong_questions == Get(session, "wrong_questions", <<>>)
    IN  /\ request' = Req("retry_wrong", "GET", "", None)
        /\ UNCHANGED <<db, gen>>
        /\ IF wrong_questions = <<>>
           THEN /\ session' = session
                /\ response' = Redirect("redirect:question")
           ELSE /\ session' = Put(Put(Put(Put(session,
                                 "current_question", 0),
                                 "answers", EmptyDict),
                                 "question_ids", wrong_questions),
                                 "wrong_questions", <<>>)
                /\ response' = Redirect("redirect:question")

\* retry_wrong, had it kept wrong_questions for the retry run
RetryKeepsWrong ==
    LET wrong_questions == Get(session, "wrong_questions", <<>>)
    IN  /\ request' = Req("retry_wrong", "GET", "", None)
        /\ UNCHANGED <<db, gen>>
        /\ IF wrong_questions = <<>>
           THEN /\ session' = session
                /\ response' = Redirect("redirect:index")
           ELSE /\ session' = Put(Put(Put(session,
                                 "current_question", 0),
                                 "answers", EmptyDict),
                                 "question_ids", wrong_questions)
                /\ response' = Redirect("redirect:question")

\* GET /retry-wrong
retry_wrong ==
    LET wrong_questions == Get(session, "wrong_questions", <<>>)
    IN  /\ request' = Req("retry_wrong", "GET", "", None)
        /\ UNCHANGED <<db, gen>>
        /\ IF wrong_questions = <<>>
           THEN /\ session' = session
                /\ response' = Redirect("redirect:index")
           ELSE /\ session' = Put(Put(Put(Put(session,
                                 "current_question", 0),
                                 "answers", EmptyDict),
                                 "question_ids", wrong_questions),
                                 "wrong_questions", <<>>)
                /\ response' = Redirect("redirect:question")

\* one row of the results breakdown
QuestionResult(q, answers) ==
    LET selected_id == Get(answers, Str(q.question_id), None)
        flagged == {i \in 1..Len(q.options) : q.options[i].is_correct /= 0}
        correct_option == IF flagged = {} THEN None
                          ELSE q.options[CHOOSE i \in flagged : \A j \in flagged : j <= i].option_id
        chosen == {i \in 1..Len(q.options) : q.options[i].option_id = selected_id}
        selected_option == IF chosen = {} THEN None
                           ELSE q.options[CHOOSE i \in chosen : \A j \in chosen : j <= i]
    IN  [question |-> q.question_id,
         selected |-> IF chosen = {} THEN None ELSE selected_option.option_id,
         correct |-> correct_option,
         is_correct |-> IF chosen = {} THEN None ELSE selected_option.is_correct]

\* CountCorrect, had it counted every row not marked incorrect
RECURSIVE CountNotIncorrect(_)
CountNotIncorrect(rows) ==
    IF rows = <<>> THEN 0
    ELSE (IF Head(rows).is_correct /= 0 THEN 1 ELSE 0) + CountNotIncorrect(Tail(rows))

RECURSIVE CountCorrect(_)
CountCorrect(rows) ==
    IF rows = <<>> THEN 0
    ELSE (IF Truthy(Head(rows).is_correct) THEN 1 ELSE 0) + CountCorrect(Tail(rows))

\* what results() hands to results.html
ScoreReport(sess) ==
    LET answers == Get(sess, "answers", EmptyDict)
        wrong_questions == Get(sess, "wrong_questions", <<>>)
        questions == RunQuestions(sess)
        question_results == [i \in 1..Len(questions) |-> QuestionResult(questions[i], answers)]
    IN  [NoResponse EXCEPT !.view = "results.html",
                           !.results = question_results,
                           !.correct_count = CountCorrect(question_results),
                           !.total = Len(questions),
                           !.has_wrong_answers = Len(wrong_questions) > 0]

\* results, had it cleared the reveal state of the session
ResultsClearsReveal ==
    /\ request' = Req("results", "GET", "", None)
    /\ response' = ScoreReport(session)
    /\ session' = Put(Put(session, "show_answer", FALSE), "selected_option", None)
    /\ UNCHANGED <<db, gen>>

\* GET /results
results ==
    /\ request' = Req("results", "GET", "", None)
    /\ response' = ScoreReport(session)
    /\ session' = session
    /\ UNCHANGED <<db, gen>>

----------------------------------------------------------------------------
(* The system *)

\* what the answer field of a posted form can hold: nothing, the identifier of
\* an option of the store, or an identifier the store does not hold
AnswerInputs == {None} \cup 1..(db.seq_options + 1)

FilePathLists == SeqsUpTo(BOOLEAN, MaxFiles)

\* the stores main() can leave behind: one per schema-valid service response
GeneratedStores ==
    {save_questions_to_db(clear_database(EmptyDb), text.questions) :
        text \in {t \in ServiceTexts : t.has_text /\ SchemaValid(t)}}

NoRequest == Req("none", "GET", "", None)

\* the quiz application starts on a generated store, with a new session
Init ==
    /\ db \in GeneratedStores
    /\ gen = [status |-> "ok", api_called |-> TRUE]
    /\ session = EmptyDict
    /\ request = NoRequest
    /\ response = NoResponse

StartQuiz == index

ViewQuestion == question("GET", "", None)

SubmitAnswer == \E answer \in AnswerInputs : question("POST", "submit", answer)

NextQuestion == question("POST", "next", None)

RetryWrong == retry_wrong

ViewResults == results

Next ==
    \/ StartQuiz
    \/ ViewQuestion
    \/ SubmitAnswer
    \/ NextQuestion
    \/ RetryWrong
    \/ ViewResults

Spec == Init /\ [][Next]_vars

\* the script is run, any number of times, on a store left by an earlier run
GenInit ==
    /\ db \in GeneratedStores
    /\ gen = Run("start", <<>>, "none", FALSE, <<>>, EmptyDb)
    /\ session = EmptyDict
    /\ request = NoRequest
    /\ response = NoResponse

ParseArgs == \E file_paths \in FilePathLists : main_args(file_paths)

ClearStore == main_clear

Generate == \E text \in ServiceTexts : main_generate(text)

SaveQuestions == main_save

GenNext ==
    \/ ParseArgs
    \/ ClearStore
    \/ Generate
    \/ SaveQuestions

GenSpec == GenInit /\ [][GenNext]_vars

----------------------------------------------------------------------------
(* The session state of the specification, read off the Flask session *)

current_index == Get(session, "current_question", 0)

answers == Get(session, "answers", EmptyDict)

wrong_questions == Get(session, "wrong_questions", <<>>)

\* the identifiers of the run: question_ids, or every identifier of the store in
\* store order when question_ids is empty or absent (as question() and
\* results() read it)
QuestionOrderOf(sess) ==
    LET question_ids == Get(sess, "question_ids", <<>>)
    IN  IF question_ids /= <<>> THEN question_ids ELSE AllIds

question_order == QuestionOrderOf(session)

NoDuplicates(s) == \A i, j \in 1..Len(s) : s[i] = s[j] => i = j

\* the last request was POST /question with this action
Posted(req, action) ==
    req.route = "question" /\ req.method = "POST" /\ req.action = action

----------------------------------------------------------------------------
(* C1: current_index stays within 0..len(question_order); an advance that     *)
(* takes effect raises it by exactly 1, and an advance requested at            *)
(* len(question_order) leaves it as it is.                                     *)

C1_AdvanceStep ==
    Posted(request', "next") =>
        LET before == Get(session, "current_question", 0)
            after == Get(session', "current_question", 0)
        IN  IF before < Len(QuestionOrderOf(session))
            THEN after = before + 1
            ELSE after = before

C1_IndexInRange ==
    /\ [](current_index \in 0..Len(question_order))
    /\ [][C1_AdvanceStep]_vars

\* an advance took effect and completed a run of two questions
C1_Witness ==
    /\ Posted(request, "next")
    /\ response.view = "redirect:question"
    /\ Len(question_order) = 2
    /\ current_index = 2

----------------------------------------------------------------------------
(* C2: wrong_questions never holds a question identifier twice, whatever the  *)
(* sequence of start, submit, advance, retry and score requests.              *)

C2_WrongQuestionsDistinct == NoDuplicates(wrong_questions)

\* an advance has just recorded the second wrongly answered question of a run
C2_Witness ==
    /\ Posted(request, "next")
    /\ Len(wrong_questions) = 2
    /\ current_index = 2

----------------------------------------------------------------------------
(* C3: on a non-empty store, the index route leaves question_ids holding each *)
(* identifier of the store exactly once, current_index = 0, and answers and   *)
(* wrong_questions empty.                                                     *)

C3_StartFullRun ==
    (request.route = "index" /\ AllIds /= <<>>) =>
        /\ "question_ids" \in DOMAIN session
        /\ Len(session["question_ids"]) = Len(AllIds)
        /\ Range(session["question_ids"]) = Range(AllIds)
        /\ NoDuplicates(session["question_ids"])
        /\ current_index = 0
        /\ answers = EmptyDict
        /\ wrong_questions = <<>>

\* index has shuffled a store of two questions into the order 2, 1
C3_Witness ==
    /\ request.route = "index"
    /\ Len(AllIds) = 2
    /\ session["question_ids"] = <<2, 1>>

----------------------------------------------------------------------------
(* C4: retry_wrong on a non-empty wrong_questions starts a run whose          *)
(* question_ids is the previous wrong_questions, in the recorded order, with  *)
(* current_index = 0 and answers and wrong_questions empty.                   *)

C4_RetryStep ==
    (request'.route = "retry_wrong" /\ Get(session, "wrong_questions", <<>>) /= <<>>) =>
        /\ "question_ids" \in DOMAIN session'
        /\ session'["question_ids"] = Get(session, "wrong_questions", <<>>)
        /\ Get(session', "current_question", None) = 0
        /\ Get(session', "answers", <<"absent">>) = EmptyDict
        /\ Get(session', "wrong_questions", <<"absent">>) = <<>>

C4_RetryRun == [][C4_RetryStep]_vars

\* a retry run over two questions recorded wrong in the order 2, 1
C4_Witness ==
    /\ request.route = "retry_wrong"
    /\ response.view = "redirect:question"
    /\ session["question_ids"] = <<2, 1>>
    /\ wrong_questions = <<>>

----------------------------------------------------------------------------
(* The store, as the claims speak of it *)

StoreIds == {db.questions[i].question_id : i \in 1..Len(db.questions)}

OptionIdsOf(qid) ==
    {db.options[i].option_id : i \in {j \in 1..Len(db.options) : db.options[j].question_id = qid}}

\* the options of a question that the store flags correct
CorrectOptionIds(qid) ==
    {db.options[i].option_id :
        i \in {j \in 1..Len(db.options) :
                  db.options[j].question_id = qid /\ db.options[j].is_correct = 1}}

\* the question at the current position of a session that is not past the end
CurrentQuestionOf(sess) == QuestionOrderOf(sess)[Get(sess, "current_question", 0) + 1]

\* an option was submitted for the current question and is on display
Revealed(sess) ==
    /\ Get(sess, "current_question", 0) < Len(QuestionOrderOf(sess))
    /\ Get(sess, "show_answer", FALSE)
    /\ Str(CurrentQuestionOf(sess)) \in DOMAIN Get(sess, "answers", EmptyDict)
    /\ Get(sess, "answers", EmptyDict)[Str(CurrentQuestionOf(sess))]
          = Get(sess, "selected_option", None)

----------------------------------------------------------------------------
(* C5: an advance from a state in which an option was submitted for the       *)
(* current question appends that question to wrong_questions if and only if   *)
(* the selected option is not a correct option of the question.               *)

C5_AdvanceStep ==
    (Posted(request', "next") /\ Revealed(session)) =>
        LET q == CurrentQuestionOf(session)
            selected == Get(session, "selected_option", None)
            before == Get(session, "wrong_questions", <<>>)
            after == Get(session', "wrong_questions", <<>>)
        IN  IF selected \notin CorrectOptionIds(q)
            THEN after = Append(before, q)
            ELSE after = before

C5_WrongIffIncorrect == [][C5_AdvanceStep]_vars

----------------------------------------------------------------------------
(* C6: score called right after a submit for the current question reports,    *)
(* for that question, the option of that submit as the selected one, also     *)
(* after earlier submits for the same question. The option is one of the      *)
(* question's own, as the question form offers them.                          *)

C6_ScoreAfterSubmitStep ==
    (/\ Posted(request, "submit")
     /\ response.view = "question.html"
     /\ request.answer \in OptionIdsOf(response.question)
     /\ request'.route = "results") =>
        \E i \in 1..Len(response'.results) :
            /\ response'.results[i].question = response.question
            /\ response'.results[i].selected = request.answer

C6_LastSubmitWins == [][C6_ScoreAfterSubmitStep]_vars

\* score right after a submit: the report shows the option on display
C6_Witness ==
    /\ request.route = "results"
    /\ Revealed(session)
    /\ \E i \in 1..Len(response.results) :
          /\ response.results[i].question = CurrentQuestionOf(session)
          /\ response.results[i].selected = Get(session, "selected_option", None)
          /\ response.results[i].selected \in OptionIdsOf(CurrentQuestionOf(session))

----------------------------------------------------------------------------
(* C7: the results route changes no session variable, and a second score call *)
(* on the same state returns the same report.                                 *)

C7_ScoreStep ==
    request'.route = "results" =>
        /\ session' = session
        /\ db' = db
        /\ request.route = "results" => response' = response

C7_ScoreReadOnly == [][C7_ScoreStep]_vars

\* score on a run in progress, with an answer on display and a wrong question
C7_Witness ==
    /\ request.route = "results"
    /\ Get(session, "show_answer", FALSE)
    /\ wrong_questions /= <<>>
    /\ response.total = 2

----------------------------------------------------------------------------
(* C8: score's total is the number of questions of question_order present in  *)
(* the store; its correct count is the number of those whose recorded answer  *)
(* is an option the store flags correct; a question without an answer counts  *)
(* as incorrect; 0 <= correct count <= total.                                 *)

PresentPositions == {i \in 1..Len(question_order) : question_order[i] \in StoreIds}

RightPositions ==
    {i \in PresentPositions :
        /\ Str(question_order[i]) \in DOMAIN answers
        /\ answers[Str(question_order[i])] \in CorrectOptionIds(question_order[i])}

C8_ScoreCounts ==
    request.route = "results" =>
        /\ response.total = Cardinality(PresentPositions)
        /\ response.correct_count = Cardinality(RightPositions)
        /\ 0 <= response.correct_count
        /\ response.correct_count <= response.total

\* score of a run of two with one right answer and one question not answered
C8_Witness ==
    /\ request.route = "results"
    /\ response.total = 2
    /\ response.correct_count = 1
    /\ Cardinality(DOMAIN answers) = 1

----------------------------------------------------------------------------
(* C9: on an empty store, index leaves a zero-length question_ids, every      *)
(* request to the question route leaves the session as it is and returns the  *)
(* empty-state view, and score returns total = 0 and correct = 0.             *)

C9_EmptyState ==
    db.questions = <<>> =>
        /\ request.route = "index" =>
              "question_ids" \in DOMAIN session /\ session["question_ids"] = <<>>
        /\ request.route = "question" => response.view = "no_questions.html"
        /\ request.route = "results" => response.total = 0 /\ response.correct_count = 0

C9_EmptyStep ==
    (db.questions = <<>> /\ request'.route = "question") => session' = session

C9_EmptyPool == []C9_EmptyState /\ [][C9_EmptyStep]_vars

\* an option was posted to the question route of a started session on an empty store
C9_Witness ==
    /\ db.questions = <<>>
    /\ "question_ids" \in DOMAIN session
    /\ Posted(request, "submit")
    /\ request.answer /= None
    /\ response.view = "no_questions.html"

----------------------------------------------------------------------------
(* C10: at current_index = len(question_order), a submit or advance request   *)
(* changes no session variable and the caller is redirected to the results    *)
(* view.                                                                      *)

AtEnd(sess) == Get(sess, "current_question", 0) = Len(QuestionOrderOf(sess))

C10_OriginalStep ==
    (request'.route = "question" /\ request'.method = "POST" /\ AtEnd(session)) =>
        /\ session' = session
        /\ response'.view = "redirect:results"

C10_CompletedRedirects == [][C10_OriginalStep]_vars

(* C10, amended: as above for a run of at least one question; on a run        *)
(* without questions the session is unchanged too and the empty-state view is *)
(* returned.                                                                  *)

C10_AmendedStep ==
    (request'.route = "question" /\ request'.method = "POST" /\ AtEnd(session)) =>
        /\ session' = session
        /\ response'.view = IF QuestionOrderOf(session) /= <<>>
                            THEN "redirect:results"
                            ELSE "no_questions.html"

C10_CompletedNoOp == [][C10_AmendedStep]_vars

\* an option was posted after the end of a run of two questions with answers
C10_Witness ==
    /\ Posted(request, "submit")
    /\ request.answer /= None
    /\ response.view = "redirect:results"
    /\ current_index = 2
    /\ Len(question_order) = 2
    /\ Cardinality(DOMAIN answers) = 2

----------------------------------------------------------------------------
(* C11: every key of answers is the identifier of a question of the current   *)
(* question_order: no entry outlives its run or names a question outside it.  *)

C11_AnswersWithinRun ==
    \A k \in DOMAIN answers : \E i \in 1..Len(question_order) : k = Str(question_order[i])

\* an answer recorded in a retry run over one of the two questions of the store
C11_Witness ==
    /\ Len(AllIds) = 2
    /\ Len(question_order) = 1
    /\ Cardinality(DOMAIN answers) = 1
    /\ Posted(request, "submit")

----------------------------------------------------------------------------
(* C12: wrong_questions gains an element in an advance step only: a submit    *)
(* (wrong or repeated), a view of the question and score leave it unchanged.  *)

C12_WrongStep ==
    LET before == Get(session, "wrong_questions", <<>>)
        after == Get(session', "wrong_questions", <<>>)
    IN  /\ Len(after) > Len(before) => Posted(request', "next")
        /\ (\/ Posted(request', "submit")
            \/ (request'.route = "question" /\ request'.method = "GET")
            \/ request'.route = "results") => after = before

C12_WrongGrowsOnAdvance == [][C12_WrongStep]_vars

\* a wrong option is on display and the question is not recorded as wrong
C12_Witness ==
    /\ Posted(request, "submit")
    /\ Revealed(session)
    /\ Get(session, "selected_option", None) \notin CorrectOptionIds(CurrentQuestionOf(session))
    /\ CurrentQuestionOf(session) \notin Range(wrong_questions)

----------------------------------------------------------------------------
(* C15: in a run that is not completed, a submit with a chosen option records *)
(* that option as the answer of the current question and reveals it (reveal   *)
(* flag set, selected option = that option); an advance clears the reveal     *)
(* flag and the selected option and moves to the next question; the question  *)
(* route reports the run completed exactly when current_index equals          *)
(* len(question_order) and otherwise shows the question at current_index.     *)

C15_SubmitStep ==
    (/\ Posted(request', "submit")
     /\ request'.answer /= None
     /\ ~AtEnd(session)) =>
        LET after == Get(session', "answers", EmptyDict)
        IN  /\ Str(CurrentQuestionOf(session)) \in DOMAIN after
            /\ after[Str(CurrentQuestionOf(session))] = request'.answer
            /\ Get(session', "show_answer", FALSE) = TRUE
            /\ Get(session', "selected_option", None) = request'.answer
            /\ Get(session', "current_question", 0) = current_index
            /\ response'.view = "question.html"
            /\ response'.show_answer = TRUE
            /\ response'.selected_option = request'.answer

C15_AdvanceStep ==
    (Posted(request', "next") /\ ~AtEnd(session)) =>
        /\ Get(session', "show_answer", FALSE) = FALSE
        /\ Get(session', "selected_option", None) = None
        /\ Get(session', "current_question", 0) = current_index + 1
        /\ response'.view = "redirect:question"

C15_Shown ==
    (request.route = "question" /\ request.method = "GET" /\ question_order /= <<>>) =>
        IF AtEnd(session)
        THEN response.view = "redirect:results"
        ELSE /\ response.view = "question.html"
             /\ response.question = CurrentQuestionOf(session)
             /\ response.show_answer = Get(session, "show_answer", FALSE)

C15_QuizCycle == []C15_Shown /\ [][C15_SubmitStep /\ C15_AdvanceStep]_vars

\* an answered first question was advanced past and the second one awaits its answer
C15_Witness ==
    /\ Posted(request, "next")
    /\ current_index = 1
    /\ Len(question_order) = 2
    /\ DOMAIN answers = {Str(question_order[1])}
    /\ ~Get(session, "show_answer", FALSE)

----------------------------------------------------------------------------
(* C16: retry_wrong on a session whose wrong_questions is empty changes       *)
(* nothing and routes the caller to start, and the start it is routed to      *)
(* begins a fresh full run: question_order holds every identifier of the      *)
(* store exactly once, current_index is 0, answers and wrong_questions are    *)
(* empty.                                                                      *)

C16_RetryEmptyStep ==
    (request'.route = "retry_wrong" /\ wrong_questions = <<>>) =>
        /\ session' = session
        /\ response'.view = "redirect:index"

C16_FollowStep ==
    (response.view = "redirect:index" /\ request'.route = "index") =>
        /\ NoDuplicates(Get(session', "question_ids", <<>>))
        /\ Range(Get(session', "question_ids", <<>>)) = StoreIds
        /\ Get(session', "current_question", None) = 0
        /\ Get(session', "answers", None) = EmptyDict
        /\ Get(session', "wrong_questions", None) = <<>>

C16_RetryEmptyRestarts == [][C16_RetryEmptyStep /\ C16_FollowStep]_vars

\* retry_wrong was asked for in a run with an answer and no wrong question
C16_Witness ==
    /\ request.route = "retry_wrong"
    /\ response.view = "redirect:index"
    /\ DOMAIN answers /= {}
    /\ current_index > 0

----------------------------------------------------------------------------
(* C17: every new run begins awaiting an answer: right after start or         *)
(* retry_wrong has begun a run, from whatever state, the reveal flag is false *)
(* and no selected option is held.                                            *)

C17_RunStartsAwaiting ==
    (request.route \in {"index", "retry_wrong"} /\ response.view = "redirect:question") =>
        /\ Get(session, "show_answer", FALSE) = FALSE
        /\ Get(session, "selected_option", None) = None

----------------------------------------------------------------------------
(* C18: each identifier in wrong_questions belongs to a question answered     *)
(* incorrectly in the current run: answers holds an entry for it and that     *)
(* entry is not a correct option of the question.                             *)

C18_WrongWereAnswered ==
    \A i \in 1..Len(wrong_questions) :
        /\ Str(wrong_questions[i]) \in DOMAIN answers
        /\ answers[Str(wrong_questions[i])] \notin CorrectOptionIds(wrong_questions[i])

----------------------------------------------------------------------------
(* C19: when a run is completed, wrong_questions is exactly the set of        *)
(* questions that score reports as incorrect, and has_wrong_answers holds     *)
(* exactly when the correct count is below the total.                         *)

\* the questions of the run that score reports as incorrect
IncorrectIn(report) ==
    {report.results[i].question :
        i \in {j \in 1..Len(report.results) : ~Truthy(report.results[j].is_correct)}}

----------------------------------------------------------------------------
(* C13: after any successful generation run every Question of the store has   *)
(* exactly one Option with is_correct = true, whatever schema-valid response  *)
(* the service returned.                                                      *)

C13_ExactlyOneCorrect ==
    (gen.pc = "exit" /\ gen.status = "ok") =>
        \A q \in StoreIds : Cardinality(CorrectOptionIds(q)) = 1

----------------------------------------------------------------------------
(* C14: when the file-path list is empty or some path, at whatever position,  *)
(* does not exist, the run ends with an error and the service is never called *)
(* in that run.                                                                *)

\* the run has no file path, or one of its paths names no file
BadInput(run) ==
    run.file_paths = <<>> \/ \E i \in 1..Len(run.file_paths) : ~run.file_paths[i]

C14_InputErrorBeforeService ==
    (gen.pc /= "start" /\ BadInput(gen)) =>
        /\ ~gen.api_called
        /\ gen.pc /= "save"
        /\ gen.pc = "exit" => gen.status \in {"usage", "ValueError", "FileNotFoundError"}

\* a run on two paths, the second of them missing, has ended
C14_Witness ==
    /\ gen.pc = "exit"
    /\ gen.file_paths = <<TRUE, FALSE>>
    /\ gen.status = "FileNotFoundError"
    /\ ~gen.api_called

----------------------------------------------------------------------------
(* C20: a generation run that fails (a file is missing, the service returns   *)
(* no text, or the text violates the schema) leaves the Question Store as it  *)
(* was before the run.                                                        *)

C20_FailedRunKeepsStore ==
    (gen.pc = "exit" /\ gen.status \in {"FileNotFoundError", "ValueError", "ValidationError"}) =>
        /\ db.questions = gen.before.questions
        /\ db.options = gen.before.options

====
